---- MODULE Spec2Model ----
(***************************************************************************)
(* Model of the schema migration engine of Agni_Backend:                   *)
(*   src/src/database/migrate.js  (DatabaseMigrator)                       *)
(*   src/src/index.js             (the HTTP collaborator that calls it)    *)
(* Strings are sequences of character codes, so that sort(), endsWith(),   *)
(* replace(), split() and trim() are computed as JavaScript computes them. *)
(***************************************************************************)
EXTENDS Integers, Sequences, FiniteSets, TLC

(***************************************************************************)
(* Characters and strings                                                  *)
(***************************************************************************)
\* ".sql", the suffix of migrate.js:47 and the pattern of migrate.js:104
SqlExt == <<46, 115, 113, 108>>
\* ";", the separator of migrate.js:62
Semicolon == <<59>>
\* "_" and " " of migrate.js:105
Underscore == <<95>>
Space == <<32>>
\* the characters String.prototype.trim removes (space, tab, LF, CR)
WhiteSpace == {32, 9, 10, 13}

\* file names of the migrations directory
File1 == <<49>> \o SqlExt                     \* "1.sql"
File1a == <<49, 45, 97>> \o SqlExt            \* "1-a.sql"
File2b == <<50, 95, 98>> \o SqlExt            \* "2_b.sql"
FileTxt == <<51, 46, 116, 120, 116>>          \* "3.txt"
FileDotFirst == SqlExt \o File1               \* ".sql1.sql"
FileDouble == File1 \o SqlExt                 \* "1.sql.sql"

\* script contents
BodyOne == <<65, 59>>                         \* "A;"
BodyTwo == <<65, 59, 10, 66>>                 \* "A;\nB"
BodyBlank == <<32, 59, 10>>                   \* " ;\n"
BodyEdited == <<67>>                          \* "C"

\* arguments of `node migrate.js create <name>`
NamePlain == <<97, 32, 98>>                   \* "a b"
NameWide == <<97, 32, 32, 98>>                \* "a  b"
NameSnake == <<97, 95, 98>>                   \* "a_b"
NameDotSql == <<97>> \o SqlExt \o <<32, 98>>  \* "a.sql b"
AuthoredNames == {NamePlain, NameWide, NameSnake, NameDotSql}

\* new Date().toISOString() at the call: "2026-11-02T05:52:44.123Z"
IsoNow ==
  <<50, 48, 50, 54, 45, 49, 49, 45, 48, 50, 84, 48, 53, 58, 53, 50, 58,
  52, 52, 46, 49, 50, 51, 90>>

\* the template of createMigration, around ${name} and the creation time
TemplateHead == <<45, 45, 32, 77, 105, 103, 114, 97, 116, 105, 111, 110, 58, 32>>
TemplateCreated ==
  <<10, 45, 45, 32, 67, 114, 101, 97, 116, 101, 100, 58, 32>>
TemplateRest ==
  <<10, 45, 45, 32, 68, 101, 115, 99, 114, 105, 112, 116, 105, 111, 110,
  58, 32, 65, 100, 100, 32, 121, 111, 117, 114, 32, 83, 81, 76, 32, 115,
  116, 97, 116, 101, 109, 101, 110, 116, 115, 32, 104, 101, 114, 101, 10,
  10, 45, 45, 32, 69, 120, 97, 109, 112, 108, 101, 58, 10, 45, 45, 32, 67,
  82, 69, 65, 84, 69, 32, 84, 65, 66, 76, 69, 32, 73, 70, 32, 78, 79, 84,
  32, 69, 88, 73, 83, 84, 83, 32, 101, 120, 97, 109, 112, 108, 101, 95,
  116, 97, 98, 108, 101, 32, 40, 10, 45, 45, 32, 32, 32, 32, 32, 105, 100,
  32, 83, 69, 82, 73, 65, 76, 32, 80, 82, 73, 77, 65, 82, 89, 32, 75, 69,
  89, 44, 10, 45, 45, 32, 32, 32, 32, 32, 110, 97, 109, 101, 32, 86, 65,
  82, 67, 72, 65, 82, 40, 50, 53, 53, 41, 32, 78, 79, 84, 32, 78, 85, 76,
  76, 44, 10, 45, 45, 32, 32, 32, 32, 32, 99, 114, 101, 97, 116, 101, 100,
  95, 97, 116, 32, 84, 73, 77, 69, 83, 84, 65, 77, 80, 32, 68, 69, 70, 65,
  85, 76, 84, 32, 67, 85, 82, 82, 69, 78, 84, 95, 84, 73, 77, 69, 83, 84,
  65, 77, 80, 10, 45, 45, 32, 41, 59, 10, 10, 45, 45, 32, 65, 100, 100,
  32, 121, 111, 117, 114, 32, 109, 105, 103, 114, 97, 116, 105, 111, 110,
  32, 83, 81, 76, 32, 104, 101, 114, 101, 10>>

\* a < b in the order of JavaScript's default sort: by code units, a proper
\* prefix first
RECURSIVE StrLess(_, _)
StrLess(a, b) ==
  IF b = <<>> THEN FALSE
  ELSE IF a = <<>> THEN TRUE
  ELSE IF Head(a) # Head(b) THEN Head(a) < Head(b)
  ELSE StrLess(Tail(a), Tail(b))

\* String.prototype.endsWith
EndsWith(s, suffix) ==
  /\ Len(s) >= Len(suffix)
  /\ SubSeq(s, Len(s) - Len(suffix) + 1, Len(s)) = suffix

\* the positions at which pat occurs in s
Occurrences(s, pat) ==
  {i \in 1..(Len(s) - Len(pat) + 1) : SubSeq(s, i, i + Len(pat) - 1) = pat}

Min(S) == CHOOSE x \in S : \A y \in S : x <= y

\* String.prototype.replace(pat, rep) with a string pattern: the FIRST
\* occurrence only
ReplaceFirst(s, pat, rep) ==
  IF Occurrences(s, pat) = {} THEN s
  ELSE LET i == Min(Occurrences(s, pat))
       IN SubSeq(s, 1, i - 1) \o rep \o SubSeq(s, i + Len(pat), Len(s))

\* String.prototype.replace(/c/g, rep) for a one-character pattern
RECURSIVE ReplaceAllChar(_, _, _)
ReplaceAllChar(s, c, rep) ==
  IF s = <<>> THEN <<>>
  ELSE (IF <<Head(s)>> = c THEN rep ELSE <<Head(s)>>)
         \o ReplaceAllChar(Tail(s), c, rep)

\* String.prototype.split(sep) for a one-character separator
RECURSIVE Split(_, _)
Split(s, sep) ==
  IF Occurrences(s, sep) = {} THEN <<s>>
  ELSE LET i == Min(Occurrences(s, sep))
       IN <<SubSeq(s, 1, i - 1)>> \o Split(SubSeq(s, i + 1, Len(s)), sep)

\* String.prototype.trim
RECURSIVE TrimLeft(_)
TrimLeft(s) ==
  IF s # <<>> /\ Head(s) \in WhiteSpace THEN TrimLeft(Tail(s)) ELSE s

RECURSIVE TrimRight(_)
TrimRight(s) ==
  IF s # <<>> /\ s[Len(s)] \in WhiteSpace
  THEN TrimRight(SubSeq(s, 1, Len(s) - 1)) ELSE s

Trim(s) == TrimRight(TrimLeft(s))

\* Array.prototype.sort() without a comparator: ascending by code units
RECURSIVE Insert(_, _)
Insert(x, sorted) ==
  IF sorted = <<>> THEN <<x>>
  ELSE IF StrLess(Head(sorted), x) THEN <<Head(sorted)>> \o Insert(x, Tail(sorted))
  ELSE <<x>> \o sorted

RECURSIVE Sort(_)
Sort(seq) == IF seq = <<>> THEN <<>> ELSE Insert(Head(seq), Sort(Tail(seq)))

Range(seq) == {seq[k] : k \in 1..Len(seq)}

\* the orders in which readdir may enumerate the entries S
Enumerations(S) ==
  {e \in [1..Cardinality(S) -> S] : Range(e) = S}

(***************************************************************************)
(* Pure parts of DatabaseMigrator                                          *)
(***************************************************************************)
\* createMigration: new Date().toISOString().replace(/[^0-9]/g, '')
\*   .slice(0, 14)
IsDigit(c) == c \in 48..57
Timestamp(iso) ==
  LET digits == SelectSeq(iso, IsDigit)
  IN SubSeq(digits, 1, IF Len(digits) < 14 THEN Len(digits) ELSE 14)

\* name.replace(/\s+/g, '_'): every run of whitespace becomes one "_"
RECURSIVE ReplaceWhitespaceRuns(_)
ReplaceWhitespaceRuns(name) ==
  IF name = <<>> THEN <<>>
  ELSE IF Head(name) \in WhiteSpace
       THEN Underscore \o ReplaceWhitespaceRuns(TrimLeft(Tail(name)))
       ELSE <<Head(name)>> \o ReplaceWhitespaceRuns(Tail(name))

\* createMigration: `${timestamp}_${name.replace(/\s+/g, '_')}.sql`
FileNameFor(iso, name) ==
  Timestamp(iso) \o Underscore \o ReplaceWhitespaceRuns(name) \o SqlExt

\* createMigration: the template written to the new file
Template(iso, name) ==
  TemplateHead \o name \o TemplateCreated \o iso \o TemplateRest

IsSqlFile(file) == EndsWith(file, SqlExt)

\* getMigrationFiles, the value returned for the entries readdir gave
SortedMigrationFiles(entries) == Sort(SelectSeq(entries, IsSqlFile))

\* migrate: const version = file.replace('.sql', '')
VersionOf(file) == ReplaceFirst(file, SqlExt, <<>>)

\* migrate: const name = file.replace('.sql', '').replace(/_/g, ' ')
NameOf(file) == ReplaceAllChar(ReplaceFirst(file, SqlExt, <<>>), Underscore, Space)

NonEmpty(stmt) == Len(stmt) > 0

\* the fragments as split(';') gives them, untrimmed, the empty ones kept
RawFragments(sqlContent) == Split(sqlContent, Semicolon)

\* runMigration: sqlContent.split(';').map(trim).filter(length > 0)
Statements(sqlContent) ==
  LET parts == Split(sqlContent, Semicolon)
      trimmed == [k \in 1..Len(parts) |-> Trim(parts[k])]
  IN SelectSeq(trimmed, NonEmpty)

\* a diff that looks the file name up among the applied versions
IncludesFileName(seq, x) == \E k \in 1..Len(seq) : seq[k] = x \o SqlExt

\* executedMigrations.includes(version)
Includes(seq, x) == \E k \in 1..Len(seq) : seq[k] = x

(***************************************************************************)
(* Bounds and scenarios                                                    *)
(***************************************************************************)
\* invocations of migrate() in one behaviour
MaxInvocations == 2
\* changes an operator makes to the migrations directory in one behaviour
MaxSourceOps == 1

\* the invocations of migrate() that may be in flight
Runs == {1, 2}

\* the value of a column the INSERT does not set
Null == "NULL"
\* Date.now() - startTime: some number of milliseconds
Elapsed == "elapsed"

\* the directories a behaviour with overlapping invocations may start from
InitialSources ==
  { (File1 :> BodyOne) @@ (File2b :> BodyBlank) }

\* the directories a behaviour with one invocation at a time may start from
InitialSourcesSeq ==
  { <<>>,
    (File1 :> BodyTwo) @@ (File2b :> BodyBlank),
    (File1 :> BodyOne) @@ (File1a :> BodyTwo) @@ (File2b :> BodyOne)
      @@ (FileTxt :> BodyOne) }

\* directories with file names that hold ".sql" before their end
InitialSourcesNames ==
  { (FileDotFirst :> BodyOne) @@ (FileDouble :> BodyTwo) }

VARIABLES
  dirState,     \* "absent" or "present": the migrations directory
  files,        \* file name -> content, the entries of the directory
  srcOps,       \* operator changes made to the directory so far
  tableExists,  \* schema_migrations exists
  ledger,       \* rows of schema_migrations in id order
  connected,    \* the dbConnection module object: connected and not closed
  run,          \* invocation -> the frame of its migrate() call
  started,      \* invocations of migrate() so far
  last,         \* how the invocation that ended last ended
  server,       \* the process of index.js: "down", "connected", "migrating",
                \* "listening" or "exited" (process.exit(1))
  created       \* the last call of createMigration: its name argument, the
                \* clock it read and the file name it returned

vars == <<dirState, files, srcOps, tableExists, ledger, connected, run,
          started, last, server, created>>

\* rows mapped to row.name instead of row.version
SelectNames == [k \in 1..Len(ledger) |-> ledger[k].name]

\* getExecutedMigrations: SELECT version ... ORDER BY id, rows mapped to
\* row.version
SelectVersions == [k \in 1..Len(ledger) |-> ledger[k].version]

\* a version column without the UNIQUE constraint
NoUniqueConstraint(version) == FALSE

\* version VARCHAR(255) UNIQUE NOT NULL: an INSERT of a version that a row
\* already holds is rejected
ViolatesUnique(version) == \E k \in 1..Len(ledger) : ledger[k].version = version

\* a row as the INSERT of runMigration writes it: checksum is not among
\* the columns it sets
LedgerRow(version, name, executionTime) ==
  [version |-> version, name |-> name, checksum |-> Null,
   execution_time |-> executionTime]

\* a CREATE TABLE that replaces the table that is there
DropAndCreate(exists, rows) == <<>>

\* CREATE TABLE IF NOT EXISTS schema_migrations (...): an empty table when
\* there is none, nothing when there is one
CreateTableIfNotExists(exists, rows) == IF exists THEN rows ELSE <<>>

\* a write that leaves only the new row in the table
ReplaceRows(rows, row) == <<row>>

\* INSERT INTO schema_migrations ... VALUES (...): one more row, id next
InsertRow(rows, row) == Append(rows, row)

\* no call of createMigration yet
NotCreated == [name |-> <<>>, iso |-> <<>>, fileName |-> <<>>]

\* the error object a failed call rejects with: what failed, and no property
\* that names a migration
CaughtError(kind) == [cause |-> kind]
NoError == [cause |-> "none"]
NoReply == [kind |-> "none", code |-> 0, body |-> "none"]

IdleFrame ==
  [pc |-> "idle", executedMigrations |-> <<>>, migrationFiles |-> <<>>,
   i |-> 1, statements |-> <<>>, s |-> 1, executedCount |-> 0,
   error |-> "none", failed |-> <<>>, result |-> "none",
   thrown |-> NoError, caller |-> "none", reply |-> NoReply,
   trace |-> <<>>, id |-> 0, ledger0 |-> <<>>, src0 |-> 0,
   prior |-> [ok |-> FALSE, src |-> 0]]

\* a fresh database and a process that has not yet connected
InitFrom(sources) ==
  /\ dirState \in {"absent", "present"}
  /\ files \in (IF dirState = "absent" THEN {<<>>} ELSE sources)
  /\ srcOps = 0
  /\ tableExists = FALSE
  /\ ledger = <<>>
  /\ connected = FALSE
  /\ run = [r \in Runs |-> IdleFrame]
  /\ started = 0
  /\ last = [ok |-> FALSE, src |-> 0]
  /\ server = "listening"
  /\ created = NotCreated

Init == InitFrom(InitialSources)

InitSeq == InitFrom(InitialSourcesSeq)

(***************************************************************************)
(* migrate(), one action per awaited call                                  *)
(***************************************************************************)
CurFile(r) == run[r].migrationFiles[run[r].i]
\* what the invocation did to its collaborators, in order: the call, the
\* version it was made for, whether it returned, and what it read
Event(op, version, ok) == <<op, version, ok, <<>>>>
ReadEvent(version, body) == <<"readFile", version, TRUE, body>>
StatementEvent(version, ok, statement) == <<"statement", version, ok, statement>>
Logged(r, e) == Append(run[r].trace, e)

\* runMigration and migrate, the catch blocks: console.error(...); throw error
Rethrow(error, version) == error

\* a failure that is logged and the loop goes on with the next file
ThrownKeepsGoing(r, kind, version, e) ==
  [run[r] EXCEPT !.pc = "loop", !.i = @ + 1, !.error = kind,
                 !.failed = version, !.trace = Logged(r, e)]

\* a failure that is caught and forgotten: the loop goes on with the next file
ThrownSwallowed(r, kind, version, e) ==
  [run[r] EXCEPT !.pc = "loop", !.i = @ + 1, !.trace = Logged(r, e)]

\* a failure after which the call that failed is made again
ThrownRetries(r, kind, version, e) ==
  [run[r] EXCEPT !.trace = Logged(r, e)]

\* a failure after which migrate() starts over from its first call
ThrownRestarts(r, kind, version, e) ==
  [run[r] EXCEPT !.pc = "connect", !.executedMigrations = <<>>,
                 !.migrationFiles = <<>>, !.i = 1, !.statements = <<>>,
                 !.s = 1, !.executedCount = 0, !.trace = <<>>]

\* a failure that leaves migrate() without passing through a finally block
ThrownSkipsFinally(r, kind, version, e) ==
  [run[r] EXCEPT !.pc = "done", !.error = kind, !.failed = version,
                 !.result = "failed", !.trace = Logged(r, e)]

\* an awaited call threw: the catch blocks log and rethrow, and control
\* reaches the finally block of migrate()
Thrown(r, kind, version, e) ==
  [run[r] EXCEPT !.pc = "close", !.error = kind, !.failed = version,
                 !.thrown = Rethrow(CaughtError(kind), version),
                 !.trace = Logged(r, e)]

\* a catch block that logs and does not rethrow
InitializeSwallows(r, kind, e) ==
  [run[r] EXCEPT !.pc = "getExecuted", !.trace = Logged(r, e)]

\* initialize, the catch block: log and rethrow
InitializeThrown(r, kind, e) == Thrown(r, kind, <<>>, e)

\* a caller (startApp, POST /db/migrate, the CLI) invokes migrate() on a
\* new DatabaseMigrator
Invoke(r, caller) ==
  /\ run[r].pc \in {"idle", "done"}
  /\ started < MaxInvocations
  /\ started' = started + 1
  /\ run' = [run EXCEPT ![r] =
               [IdleFrame EXCEPT !.pc = "connect", !.id = started + 1,
                                 !.caller = caller,
                                 !.ledger0 = ledger, !.src0 = srcOps,
                                 !.prior = last]]
  /\ UNCHANGED <<dirState, files, srcOps, tableExists, ledger, connected, last, created>>

\* POST /db/migrate: const migrator = new DatabaseMigrator();
\* await migrator.migrate()
Call(r) ==
  /\ server = "listening"
  /\ Invoke(r, "http")
  /\ UNCHANGED server

\* startApp: await dbConnection.connect(); the catch block exits with 1
StartAppConnect ==
  /\ server = "down"
  /\ \E ok \in BOOLEAN :
       IF ok THEN connected' = TRUE /\ server' = "connected"
       ELSE server' = "exited" /\ UNCHANGED connected
  /\ UNCHANGED <<dirState, files, srcOps, tableExists, ledger, run, started,
                 last, created>>

\* startApp: const migrator = new DatabaseMigrator();
\* await migrator.migrate()
StartAppMigrate(r) ==
  /\ server = "connected"
  /\ server' = "migrating"
  /\ Invoke(r, "startup")

\* node migrate.js migrate: migrator.migrate().catch(console.error)
CliMigrate(r) ==
  /\ server = "down"
  /\ \A q \in Runs : run[q].pc \in {"idle", "done"}
  /\ r = (started % Cardinality(Runs)) + 1
  /\ Invoke(r, "cli")
  /\ UNCHANGED server

\* initialize: await dbConnection.connect()
Connect(r) ==
  /\ run[r].pc = "connect"
  /\ \E ok \in BOOLEAN :
       IF ok
       THEN /\ connected' = TRUE
            /\ run' = [run EXCEPT ![r].pc = "createTable",
                         ![r].trace = Logged(r, Event("connect", <<>>, TRUE))]
       ELSE /\ run' = [run EXCEPT ![r] =
                         InitializeThrown(r, "connect", Event("connect", <<>>, FALSE))]
            /\ UNCHANGED connected
  /\ UNCHANGED <<dirState, files, srcOps, tableExists, ledger,
                 started, last, server, created>>

\* initialize: await this.createMigrationsTable()
CreateMigrationsTable(r) ==
  /\ run[r].pc = "createTable"
  /\ \E ok \in BOOLEAN :
       IF ok
       THEN /\ tableExists' = TRUE
            /\ ledger' = CreateTableIfNotExists(tableExists, ledger)
            /\ run' = [run EXCEPT ![r].pc = "getExecuted",
                         ![r].trace = Logged(r, Event("createTable", <<>>, TRUE))]
       ELSE /\ run' = [run EXCEPT ![r] =
                         InitializeThrown(r, "createTable",
                                          Event("createTable", <<>>, FALSE))]
            /\ UNCHANGED <<tableExists, ledger>>
  /\ UNCHANGED <<dirState, files, srcOps, connected,
                 started, last, server, created>>

\* migrate: const executedMigrations = await this.getExecutedMigrations()
GetExecutedMigrations(r) ==
  /\ run[r].pc = "getExecuted"
  /\ \E ok \in BOOLEAN :
       IF ok /\ tableExists
       THEN run' = [run EXCEPT ![r].pc = "readdir",
                      ![r].executedMigrations = SelectVersions,
                      ![r].trace = Logged(r, Event("select", <<>>, TRUE))]
       ELSE run' = [run EXCEPT ![r] =
                      Thrown(r, "select", <<>>, Event("select", <<>>, FALSE))]
  /\ UNCHANGED <<dirState, files, srcOps, tableExists, ledger, connected, started, last, server, created>>

\* getMigrationFiles: await fs.readdir(...), then filter and sort; readdir
\* throws when the directory does not exist
Readdir(r) ==
  /\ run[r].pc = "readdir"
  /\ \/ /\ dirState = "present"
        /\ \E entries \in Enumerations(DOMAIN files) :
             run' = [run EXCEPT ![r].pc = "loop",
                       ![r].migrationFiles = SortedMigrationFiles(entries),
                       ![r].trace = Logged(r, Event("readdir", <<>>, TRUE))]
     \/ /\ dirState = "absent"
        /\ run' = [run EXCEPT ![r].pc = "mkdir",
                     ![r].trace = Logged(r, Event("readdir", <<>>, FALSE))]
  /\ UNCHANGED <<dirState, files, srcOps, tableExists, ledger, connected, started, last, server, created>>

\* a catch block that rethrows the readdir error
MkdirRethrows(r) ==
  /\ run[r].pc = "mkdir"
  /\ run' = [run EXCEPT ![r].pc = "close", ![r].error = "readdir"]
  /\ UNCHANGED <<dirState, files, srcOps, tableExists, ledger, connected,
                 started, last, server, created>>

\* getMigrationFiles, the catch block: await fs.mkdir(..., {recursive: true});
\* return []
Mkdir(r) ==
  /\ run[r].pc = "mkdir"
  /\ dirState' = "present"
  /\ run' = [run EXCEPT ![r].pc = "loop", ![r].migrationFiles = <<>>,
               ![r].trace = Logged(r, Event("mkdir", <<>>, TRUE))]
  /\ UNCHANGED <<files, srcOps, tableExists, ledger, connected,
                 started, last, server, created>>

\* a loop that reads the ledger again before every file
LoopRereads(r) ==
  /\ run[r].pc = "loop"
  /\ \/ /\ run[r].i > Len(run[r].migrationFiles)
        /\ run' = [run EXCEPT ![r].pc = "close"]
     \/ /\ run[r].i <= Len(run[r].migrationFiles)
        /\ Includes(SelectVersions, VersionOf(CurFile(r)))
        /\ run' = [run EXCEPT ![r].i = @ + 1,
                     ![r].trace = Logged(r, Event("skip", VersionOf(CurFile(r)), TRUE))]
     \/ /\ run[r].i <= Len(run[r].migrationFiles)
        /\ ~Includes(SelectVersions, VersionOf(CurFile(r)))
        /\ run' = [run EXCEPT ![r].pc = "readFile"]
  /\ UNCHANGED <<dirState, files, srcOps, tableExists, ledger, connected,
                 started, last, server, created>>

\* migrate: one turn of the for loop, up to its next awaited call
Loop(r) ==
  /\ run[r].pc = "loop"
  /\ \/ /\ run[r].i > Len(run[r].migrationFiles)
        /\ run' = [run EXCEPT ![r].pc = "close"]
     \/ /\ run[r].i <= Len(run[r].migrationFiles)
        /\ Includes(run[r].executedMigrations, VersionOf(CurFile(r)))
        /\ run' = [run EXCEPT ![r].i = @ + 1,
                     ![r].trace = Logged(r, Event("skip", VersionOf(CurFile(r)), TRUE))]
     \/ /\ run[r].i <= Len(run[r].migrationFiles)
        /\ ~Includes(run[r].executedMigrations, VersionOf(CurFile(r)))
        /\ run' = [run EXCEPT ![r].pc = "readFile"]
  /\ UNCHANGED <<dirState, files, srcOps, tableExists, ledger, connected, started, last, server, created>>

\* a runMigration that records the script before it runs any statement
RecordFirst(statements) == "insert"

\* runMigration: the for loop over the statements comes before the INSERT
AfterLoad(statements) == IF statements = <<>> THEN "insert" ELSE "exec"

\* runMigration: await fs.readFile(filePath, 'utf8'), then split, trim, filter
ReadFile(r) ==
  /\ run[r].pc = "readFile"
  /\ \/ /\ dirState = "present" /\ CurFile(r) \in DOMAIN files
        /\ LET statements == Statements(files[CurFile(r)])
           IN run' = [run EXCEPT
                        ![r].pc = AfterLoad(statements),
                        ![r].statements = statements, ![r].s = 1,
                        ![r].trace = Logged(r, ReadEvent(VersionOf(CurFile(r)), files[CurFile(r)]))]
     \/ /\ ~(dirState = "present" /\ CurFile(r) \in DOMAIN files)
        /\ run' = [run EXCEPT ![r] =
                     Thrown(r, "readFile", VersionOf(CurFile(r)),
                            Event("readFile", VersionOf(CurFile(r)), FALSE))]
  /\ UNCHANGED <<dirState, files, srcOps, tableExists, ledger, connected, started, last, server, created>>

\* runMigration: await dbConnection.query(statement)
ExecStatement(r) ==
  /\ run[r].pc = "exec"
  /\ \E ok \in BOOLEAN :
       IF ok
       THEN run' = [run EXCEPT
                      ![r].pc = IF run[r].s = Len(run[r].statements)
                                THEN "insert" ELSE "exec",
                      ![r].s = @ + 1,
                      ![r].trace = Logged(r, StatementEvent(VersionOf(CurFile(r)), TRUE,
                                                            run[r].statements[run[r].s]))]
       ELSE run' = [run EXCEPT ![r] =
                      Thrown(r, "statement", VersionOf(CurFile(r)),
                             StatementEvent(VersionOf(CurFile(r)), FALSE,
                                            run[r].statements[run[r].s]))]
  /\ UNCHANGED <<dirState, files, srcOps, tableExists, ledger, connected, started, last, server, created>>

\* runMigration: await dbConnection.query(insertQuery, [version, name,
\* executionTime]); version is UNIQUE in schema_migrations
RecordMigration(r) ==
  /\ run[r].pc = "insert"
  /\ \E ok \in BOOLEAN :
       IF ViolatesUnique(VersionOf(CurFile(r)))
       THEN /\ run' = [run EXCEPT ![r] =
                         Thrown(r, "duplicate", VersionOf(CurFile(r)),
                                Event("insert", VersionOf(CurFile(r)), FALSE))]
            /\ UNCHANGED ledger
       ELSE IF ok /\ tableExists
       THEN /\ ledger' = InsertRow(ledger, LedgerRow(VersionOf(CurFile(r)),
                                                     NameOf(CurFile(r)), Elapsed))
            /\ run' = [run EXCEPT ![r].pc = "loop", ![r].i = @ + 1,
                         ![r].executedCount = @ + 1,
                         ![r].trace = Logged(r, Event("insert", VersionOf(CurFile(r)), TRUE))]
       ELSE /\ run' = [run EXCEPT ![r] =
                         Thrown(r, "insert", VersionOf(CurFile(r)),
                                Event("insert", VersionOf(CurFile(r)), FALSE))]
            /\ UNCHANGED ledger
  /\ UNCHANGED <<dirState, files, srcOps, tableExists, connected,
                 started, last, server, created>>

\* what the caller does when its await of migrate() settles with `thrown`
\* (NoError when it resolved)
\* a handler that answers with the success message whatever happened
HttpSwallows(thrown) ==
  [kind |-> "response", code |-> 200,
   body |-> "Migrations completed successfully"]

HttpReaction(thrown) ==
  IF thrown = NoError
  THEN [kind |-> "response", code |-> 200,
        body |-> "Migrations completed successfully"]
  ELSE [kind |-> "response", code |-> 500, body |-> thrown.cause]

\* startApp: app.listen(...) after migrate(), process.exit(1) in the catch
StartupReaction(thrown) ==
  IF thrown = NoError
  THEN [kind |-> "listen", code |-> 0, body |-> "none"]
  ELSE [kind |-> "exit", code |-> 1, body |-> thrown.cause]

\* the CLI: .catch(console.error) handles the rejection, nothing calls
\* process.exit, and node ends with its default exit code
CliReaction(thrown) ==
  [kind |-> "exit", code |-> 0,
   body |-> IF thrown = NoError THEN "none" ELSE thrown.cause]

Reaction(caller, thrown) ==
  IF caller = "http" THEN HttpReaction(thrown)
  ELSE IF caller = "startup" THEN StartupReaction(thrown)
  ELSE CliReaction(thrown)

AfterStartup(thrown) == IF thrown = NoError THEN "listening" ELSE "exited"

\* a migrator that closes a connection of its own, not the shared one
CloseOwnConnection(open) == open

\* dbConnection.close() on the object of require('./connection'), which
\* index.js and migrate.js share
CloseConnection(open) == FALSE

\* migrate, the finally block: await dbConnection.close(); then the call
\* returns, or rethrows what was caught
Close(r) ==
  /\ run[r].pc = "close"
  /\ connected' = CloseConnection(connected)
  /\ run' = [run EXCEPT ![r].pc = "done",
               ![r].result = IF run[r].error = "none" THEN "completed" ELSE "failed",
               ![r].reply = Reaction(run[r].caller, run[r].thrown),
               ![r].trace = Logged(r, Event("close", <<>>, TRUE))]
  /\ last' = IF run[r].error = "none"
             THEN [ok |-> TRUE, src |-> run[r].src0]
             ELSE [ok |-> FALSE, src |-> 0]
  /\ server' = IF run[r].caller = "startup"
               THEN AfterStartup(run[r].thrown) ELSE server
  /\ UNCHANGED <<dirState, files, srcOps, tableExists, ledger,
                 started, created>>

(***************************************************************************)
(* The operator's changes to the migrations directory                      *)
(***************************************************************************)
EditScript(f) ==
  /\ dirState = "present" /\ f \in DOMAIN files
  /\ srcOps < MaxSourceOps
  /\ files[f] # BodyEdited
  /\ files' = [files EXCEPT ![f] = BodyEdited]
  /\ srcOps' = srcOps + 1
  /\ UNCHANGED <<dirState, tableExists, ledger, connected, run,
                 started, last, server, created>>

RemoveScript(f) ==
  /\ dirState = "present" /\ f \in DOMAIN files
  /\ srcOps < MaxSourceOps
  /\ files' = [g \in DOMAIN files \ {f} |-> files[g]]
  /\ srcOps' = srcOps + 1
  /\ UNCHANGED <<dirState, tableExists, ledger, connected, run,
                 started, last, server, created>>

Step(r) ==
  \/ Connect(r)
  \/ CreateMigrationsTable(r)
  \/ GetExecutedMigrations(r)
  \/ Readdir(r)
  \/ Mkdir(r)
  \/ Loop(r)
  \/ ReadFile(r)
  \/ ExecStatement(r)
  \/ RecordMigration(r)
  \/ Close(r)

\* a listed script may vanish at any moment
Vanish == \E f \in DOMAIN files : RemoveScript(f)

SourceOp == \E f \in DOMAIN files : EditScript(f) \/ RemoveScript(f)

\* invocations may overlap: two POST /db/migrate requests
Next ==
  \/ \E r \in Runs : Call(r) \/ Step(r)
  \/ Vanish

Spec == Init /\ [][Next]_vars

\* one invocation at a time; the frames are used in turn, so that the frame
\* of the invocation before stays readable
CallAlone(r) ==
  /\ \A q \in Runs : run[q].pc \in {"idle", "done"}
  /\ r = (started % Cardinality(Runs)) + 1
  /\ Call(r)

NextSeq ==
  \/ \E r \in Runs : CallAlone(r) \/ Step(r)
  \/ SourceOp

SpecSeq == InitSeq /\ [][NextSeq]_vars

\* one invocation at a time over a directory that nobody changes
InitNames == InitFrom(InitialSourcesNames)

NextNames == \E r \in Runs : CallAlone(r) \/ Step(r)

SpecNames == InitNames /\ [][NextNames]_vars

\* the event loop resumes a call of migrate() whenever the call it awaits
\* has returned or thrown
FairSteps == \A r \in Runs : WF_vars(Step(r))

\* invocations that may overlap, over a directory that nobody changes
NextLive == \E r \in Runs : Call(r) \/ Step(r)

SpecLive == Init /\ [][NextLive]_vars /\ FairSteps

\* a process that has just been started, on a fresh database
InitProcess ==
  /\ dirState \in {"absent", "present"}
  /\ files \in (IF dirState = "absent" THEN {<<>>} ELSE InitialSources)
  /\ srcOps = 0
  /\ tableExists = FALSE
  /\ ledger = <<>>
  /\ connected = FALSE
  /\ run = [r \in Runs |-> IdleFrame]
  /\ started = 0
  /\ last = [ok |-> FALSE, src |-> 0]
  /\ server = "down"
  /\ created = NotCreated

\* the process of index.js: startApp, then the POST /db/migrate requests
NextApp ==
  \/ StartAppConnect
  \/ \E r \in Runs : StartAppMigrate(r) \/ Call(r) \/ Step(r)

SpecApp == InitProcess /\ [][NextApp]_vars

\* node migrate.js create <name>: createMigration(name) writes the template
\* to a file named after the clock and the name, and returns the file name
\* (writeFile rejects when the directory is missing)
CreateMigration(name) ==
  /\ server = "down"
  /\ \A q \in Runs : run[q].pc \in {"idle", "done"}
  /\ dirState = "present"
  /\ srcOps < MaxSourceOps
  /\ srcOps' = srcOps + 1
  /\ LET fileName == FileNameFor(IsoNow, name)
     IN /\ files' = [f \in DOMAIN files \cup {fileName} |->
                      IF f = fileName THEN Template(IsoNow, name)
                      ELSE files[f]]
        /\ created' = [name |-> name, iso |-> IsoNow, fileName |-> fileName]
  /\ UNCHANGED <<dirState, tableExists, ledger, connected, run, started,
                 last, server>>

\* the processes of `node migrate.js migrate` and `node migrate.js create`,
\* one after the other
NextCli ==
  \/ \E r \in Runs : CliMigrate(r) \/ Step(r)
  \/ \E name \in AuthoredNames : CreateMigration(name)

SpecCli == InitProcess /\ [][NextCli]_vars

(***************************************************************************)
(* What an invocation has done so far, read off its trace                  *)
(***************************************************************************)
Trace(r) == run[r].trace
Positions(r, op) == {k \in 1..Len(Trace(r)) : Trace(r)[k][1] = op}
\* the calls made for version v: loading it, running a statement, recording
Touched(r, v) ==
  \E k \in 1..Len(Trace(r)) :
    Trace(r)[k][1] \in {"readFile", "statement", "insert"} /\ Trace(r)[k][2] = v
AppliedNothing(r) ==
  Positions(r, "readFile") \cup Positions(r, "statement")
    \cup Positions(r, "insert") = {}
\* the versions the invocation recorded, in order
IsRecord(e) == e[1] = "insert" /\ e[3]
Recorded(r) == LET rows == SelectSeq(Trace(r), IsRecord)
               IN [k \in 1..Len(rows) |-> rows[k][2]]
\* the queries sent to the database
DbCalls == {"createTable", "select", "statement", "insert"}
Returned(r) == run[r].pc = "done"
\* no invocation was started after r
Latest(r) == run[r].id = started
\* the scripts r found pending when it diffed, in the order it visits them
Pending(r) ==
  LET versions == [k \in 1..Len(run[r].migrationFiles) |->
                     VersionOf(run[r].migrationFiles[k])]
      IsPending(v) == ~Includes(run[r].executedMigrations, v)
  IN SelectSeq(versions, IsPending)
Distinct(seq) == \A j, k \in 1..Len(seq) : seq[j] = seq[k] => j = k

(***************************************************************************)
(* C1  Partial-failure containment.  When a run of migrate() with pending  *)
(* scripts p1..pn fails first at pk, then on return the ledger is the      *)
(* ledger before the run followed by the rows of p1..p(k-1) in that order, *)
(* nothing was loaded or executed for p(k+1)..pn, the run ended failed and *)
(* the failure it logged names pk.  (One invocation at a time.)            *)
(***************************************************************************)
ScriptFailed(r) ==
  /\ Returned(r)
  /\ run[r].error \in {"readFile", "statement", "insert", "duplicate"}

\* the versions the invocation loaded, or tried to load, in order
IsLoad(e) == e[1] = "readFile"
Loaded(r) == LET loads == SelectSeq(Trace(r), IsLoad)
             IN [k \in 1..Len(loads) |-> loads[k][2]]

C1_PartialFailureContainment ==
  \A r \in Runs :
    (ScriptFailed(r) /\ Latest(r)) =>
      LET k == Len(Loaded(r))
          n0 == Len(run[r].ledger0)
      IN /\ k \in 1..Len(Pending(r))
         /\ Loaded(r) = SubSeq(Pending(r), 1, k)
         /\ run[r].failed = Pending(r)[k]
         /\ \A j \in 1..Len(Trace(r)) :
              (Trace(r)[j][1] \in {"readFile", "statement", "insert"}
                 /\ ~Trace(r)[j][3]) =>
                /\ Trace(r)[j][2] = Pending(r)[k]
                /\ j = Len(Trace(r)) - 1
         /\ Len(ledger) = n0 + (k - 1)
         /\ SubSeq(ledger, 1, n0) = run[r].ledger0
         /\ \A j \in 1..(k - 1) : ledger[n0 + j].version = Pending(r)[j]
         /\ run[r].result = "failed"

\* three scripts were pending, the second failed
C1_Witness ==
  \E r \in Runs :
    /\ ScriptFailed(r) /\ Latest(r)
    /\ Len(Pending(r)) = 3
    /\ run[r].failed = Pending(r)[2]
    /\ Len(ledger) = Len(run[r].ledger0) + 1

(***************************************************************************)
(* C2  Idempotence.  A run that follows a completed run, with the          *)
(* directory unchanged since that run began and no other writer, loads no  *)
(* script, executes no statement, records nothing, counts zero applied     *)
(* scripts and leaves the ledger as the first run left it.                 *)
(***************************************************************************)
FollowsCompletedRun(r) ==
  /\ run[r].pc # "idle"
  /\ Latest(r)
  /\ run[r].prior.ok
  /\ run[r].prior.src = srcOps

C3_AscendingVersions ==
  \A r \in Runs :
    \A j, k \in 1..Len(Recorded(r)) :
      j < k => StrLess(Recorded(r)[j], Recorded(r)[k])

(***************************************************************************)
(* C4  No double-application.  A version that the ledger held when the run *)
(* diffed is not loaded, none of its statements is executed and no row is  *)
(* written for it by that run, also when the file's content is no longer   *)
(* the content that was applied.                                           *)
(***************************************************************************)
C4_NoDoubleApplication ==
  \A r \in Runs :
    \A k \in 1..Len(run[r].executedMigrations) :
      ~Touched(r, run[r].executedMigrations[k])

\* q applied a version from one content; the file was edited; r skipped it
C4_Witness ==
  \E r, q \in Runs, f \in DOMAIN files :
    /\ r # q
    /\ Returned(r)
    /\ Includes(run[r].executedMigrations, VersionOf(f))
    /\ \E k \in Positions(r, "skip") : Trace(r)[k][2] = VersionOf(f)
    /\ \E k \in Positions(q, "readFile") :
         /\ Trace(q)[k][2] = VersionOf(f)
         /\ Trace(q)[k][3]
         /\ Trace(q)[k][4] # files[f]
    /\ Includes(Recorded(q), VersionOf(f))

(***************************************************************************)
(* C5  Cleanup on every exit path.  An invocation that has returned or     *)
(* thrown has called close exactly once, one that is still running has not *)
(* called it, and no invocation sends a query after its close.             *)
(***************************************************************************)
C5_CleanupOnEveryExit ==
  \A r \in Runs :
    /\ Returned(r) => Cardinality(Positions(r, "close")) = 1
    /\ ~Returned(r) => Positions(r, "close") = {}
    /\ \A c \in Positions(r, "close") :
         \A k \in 1..Len(Trace(r)) :
           Trace(r)[k][1] \in DbCalls => k < c

\* one run threw after a failed record and one completed; each closed once
C5_Witness ==
  \E r, q \in Runs :
    /\ Returned(r) /\ run[r].error = "duplicate"
    /\ Cardinality(Positions(r, "close")) = 1
    /\ Returned(q) /\ run[q].result = "completed" /\ run[q].executedCount > 0
    /\ Cardinality(Positions(q, "close")) = 1

(***************************************************************************)
(* C6  Concurrent runs.  The ledger never holds two rows for one version,  *)
(* and a record step that reaches the ledger when the version is already   *)
(* there changes nothing, throws the duplicate error and sends its run to  *)
(* its end, which is failed.                                               *)
(***************************************************************************)
InLedger(v) == \E k \in 1..Len(ledger) : ledger[k].version = v

C6_DuplicateFailsHard ==
  [][ /\ Distinct([k \in 1..Len(ledger') |-> ledger'[k].version])
      /\ \A r \in Runs :
           /\ (run[r].pc = "insert" /\ run'[r] # run[r]
                 /\ InLedger(VersionOf(CurFile(r)))) =>
                /\ ledger' = ledger
                /\ run'[r].error = "duplicate"
                /\ run'[r].failed = VersionOf(CurFile(r))
                /\ run'[r].pc = "close"
           /\ (run'[r].pc = "done" /\ run'[r].error = "duplicate") =>
                run'[r].result = "failed" ]_vars

\* both runs found the version pending; q recorded it, r failed on it
C6_Witness ==
  \E r, q \in Runs :
    /\ r # q
    /\ Returned(r) /\ run[r].error = "duplicate" /\ run[r].result = "failed"
    /\ Includes(Pending(r), run[r].failed)
    /\ Includes(Pending(q), run[r].failed)
    /\ Includes(Recorded(q), run[r].failed)
    /\ Distinct(SelectVersions)

(***************************************************************************)
(* C7  Exclusive connection ownership.  No invocation closes the           *)
(* connection while another invocation is between its connect and its own  *)
(* close.                                                                  *)
(***************************************************************************)
Holding(r) ==
  /\ run[r].pc \notin {"idle", "done"}
  /\ \E k \in Positions(r, "connect") : Trace(r)[k][3]

C7_ExclusiveConnection ==
  [][ \A r \in Runs :
        (run[r].pc = "close" /\ run'[r].pc = "done") =>
          \A q \in Runs \ {r} : ~Holding(q) ]_vars

(***************************************************************************)
(* C8  Checksum recording.  Every row of the ledger carries a checksum.    *)
(***************************************************************************)
C8_ChecksumRecorded ==
  \A k \in 1..Len(ledger) : ledger[k].checksum # Null

(***************************************************************************)
(* C9  Initialization failure.  When connect or the creation of the ledger *)
(* table fails, the run goes to its end with that error, ends failed, and  *)
(* never reads the ledger, lists the directory, loads a script, executes a *)
(* statement or writes a row.                                              *)
(***************************************************************************)
InitFailure(r) ==
  \E k \in 1..Len(Trace(r)) :
    Trace(r)[k][1] \in {"connect", "createTable"} /\ ~Trace(r)[k][3]

C9_InitializationFailure ==
  \A r \in Runs :
    InitFailure(r) =>
      /\ Positions(r, "select") \cup Positions(r, "readdir")
           \cup Positions(r, "mkdir") = {}
      /\ AppliedNothing(r)
      /\ run[r].executedCount = 0
      /\ run[r].pc \in {"close", "done"}
      /\ run[r].error \in {"connect", "createTable"}
      /\ \E k \in 1..Len(Trace(r)) :
           Trace(r)[k][1] = run[r].error /\ ~Trace(r)[k][3]
      /\ Returned(r) => run[r].result = "failed"

\* the table could not be created, on a connection that was opened
C9_Witness ==
  \E r \in Runs :
    /\ Returned(r) /\ run[r].error = "createTable"
    /\ run[r].result = "failed"
    /\ DOMAIN files # {}

(***************************************************************************)
(* C10  Bootstrap.  A run that finds no migrations directory creates it,   *)
(* discovers zero scripts, applies zero, raises no error, completes, and   *)
(* leaves the ledger as it found it.  (One invocation at a time.)          *)
(***************************************************************************)
C10_Bootstrap ==
  \A r \in Runs :
    (Positions(r, "readdir") # {} /\ run[r].pc # "mkdir"
       /\ \E k \in Positions(r, "readdir") : ~Trace(r)[k][3]) =>
      /\ dirState = "present"
      /\ Positions(r, "mkdir") # {}
      /\ run[r].migrationFiles = <<>>
      /\ AppliedNothing(r)
      /\ run[r].executedCount = 0
      /\ run[r].error = "none"
      /\ Returned(r) => run[r].result = "completed"
      /\ Latest(r) => ledger = run[r].ledger0

\* the directory was missing, and the run completed
C10_Witness ==
  \E r \in Runs :
    /\ Positions(r, "mkdir") # {}
    /\ Returned(r) /\ run[r].result = "completed"
    /\ dirState = "present" /\ DOMAIN files = {}

(***************************************************************************)
(* C11  Failure identity.  When a statement of a pending script fails,     *)
(* the error migrate() surfaces to its caller carries the failing          *)
(* script's version, its name and the underlying database error.           *)
(***************************************************************************)
\* the statement of version v that the database rejected, if any
FailedStatement(r) == {k \in Positions(r, "statement") : ~Trace(r)[k][3]}

C11_FailureIdentity ==
  \A r \in Runs :
    (Returned(r) /\ FailedStatement(r) # {}) =>
      \A k \in FailedStatement(r) :
        /\ run[r].thrown.cause = "statement"
        /\ {"version", "name"} \subseteq DOMAIN run[r].thrown
        /\ run[r].thrown.version = Trace(r)[k][2]
        /\ \E j \in 1..Len(run[r].migrationFiles) :
             /\ VersionOf(run[r].migrationFiles[j]) = Trace(r)[k][2]
             /\ run[r].thrown.name = NameOf(run[r].migrationFiles[j])

(***************************************************************************)
(* C12  CLI exit code.  The process of the `migrate` command ends with     *)
(* exit code 0 only when its run completed, and with a non-zero exit code  *)
(* whenever the run failed.                                                *)
(***************************************************************************)
C12_CliExitCode ==
  \A r \in Runs :
    (Returned(r) /\ run[r].caller = "cli") =>
      /\ run[r].reply.kind = "exit"
      /\ run[r].reply.code = 0 <=> run[r].result = "completed"

(***************************************************************************)
(* C13  HTTP propagation.  POST /db/migrate answers with the success       *)
(* message only when its run completed, and with status 500 and the        *)
(* error's message for every failed run; a failed startup run makes the    *)
(* process exit with code 1, and the server never starts to listen.        *)
(***************************************************************************)
\* a call of the run failed, other than the listing of a missing directory
RunFailed(r) ==
  \E k \in 1..Len(Trace(r)) : ~Trace(r)[k][3] /\ Trace(r)[k][1] # "readdir"
Returns(r) == run[r].pc = "close" /\ run'[r].pc = "done"

C13_HttpPropagation ==
  [][ /\ \A r \in Runs :
           (Returns(r) /\ run[r].caller = "http") =>
             IF RunFailed(r)
             THEN /\ run'[r].reply.code = 500
                  /\ run'[r].reply.body = run[r].error
                  /\ run[r].error # "none"
             ELSE /\ run'[r].reply.code = 200
                  /\ run'[r].reply.body = "Migrations completed successfully"
      /\ \A r \in Runs :
           (Returns(r) /\ run[r].caller = "startup") =>
             IF RunFailed(r)
             THEN /\ run'[r].reply = [kind |-> "exit", code |-> 1,
                                      body |-> run[r].error]
                  /\ server' = "exited"
             ELSE server' = "listening"
      /\ server = "exited" => server' = "exited"
      /\ (server # "listening" /\ server' = "listening") =>
           \E r \in Runs :
             Returns(r) /\ run[r].caller = "startup" /\ ~RunFailed(r)
    ]_vars

\* the server listens after a completed startup run, and a later request's
\* run failed and was answered with 500
C13_Witness ==
  \E r \in Runs :
    /\ Returned(r) /\ run[r].caller = "http"
    /\ RunFailed(r) /\ run[r].reply.code = 500
    /\ server = "listening"

(***************************************************************************)
(* C14  Append-only ledger.  No step updates or deletes a ledger entry:    *)
(* the ledger before a step is a prefix of the ledger after it, and the    *)
(* ledger grows by exactly one entry, of that script's version, exactly    *)
(* when a run records a script it applied.                                 *)
(***************************************************************************)
IsPrefix(s, t) == Len(s) <= Len(t) /\ SubSeq(t, 1, Len(s)) = s
\* the step is r's successful INSERT for a script
Records(r) ==
  /\ Len(run'[r].trace) = Len(run[r].trace) + 1
  /\ IsRecord(run'[r].trace[Len(run'[r].trace)])

C14_AppendOnlyLedger ==
  [][ /\ IsPrefix(ledger, ledger')
      /\ \A r \in Runs :
           Records(r) =>
             /\ Len(ledger') = Len(ledger) + 1
             /\ ledger'[Len(ledger')].version =
                  run'[r].trace[Len(run'[r].trace)][2]
      /\ ledger' # ledger => \E r \in Runs : Records(r)
    ]_vars

\* two scripts were recorded, by different runs, and both entries are there
C14_Witness ==
  /\ Len(ledger) = 2
  /\ \A r \in Runs : Len(Recorded(r)) = 1
  /\ \A r \in Runs : \E k \in 1..2 : ledger[k].version = Recorded(r)[1]
  /\ ledger[1].version # ledger[2].version

(***************************************************************************)
(* C15  Completion.  A run completes only if every script that was         *)
(* pending when it diffed was applied and recorded without error in that   *)
(* run, in that order; so after a completed run, with one invocation at a  *)
(* time, every version available in the source is in the ledger.           *)
(***************************************************************************)
Completed(r) == Returned(r) /\ run[r].result = "completed"
Available == {VersionOf(f) : f \in {g \in DOMAIN files : IsSqlFile(g)}}

ReportedFound(r) == Len(run[r].migrationFiles)
\* migrate: console.log(`Already executed: ${executedMigrations.length}`)
ReportedAlreadyExecuted(r) == Len(run[r].executedMigrations)
\* migrate: console.log(`Successfully executed ${executedCount} new migrations`)
ReportedNew(r) == run[r].executedCount

C16_RunSummary ==
  \A r \in Runs :
    Completed(r) =>
      /\ ReportedAlreadyExecuted(r) = Cardinality(Positions(r, "skip"))
      /\ ReportedFound(r) = ReportedAlreadyExecuted(r) + ReportedNew(r)

(***************************************************************************)
(* C17  Authoring round-trip.  For every name given to createMigration,    *)
(* the version the runner derives from the returned file name is the       *)
(* timestamp, "_" and the normalized name, and the runner's human name     *)
(* without the timestamp prefix is equivalent to the input name (equal     *)
(* once whitespace and separators are read alike).                         *)
(***************************************************************************)
\* every run of whitespace read as one space
RECURSIVE CollapseWhitespace(_)
CollapseWhitespace(name) ==
  IF name = <<>> THEN <<>>
  ELSE IF Head(name) \in WhiteSpace
       THEN Space \o CollapseWhitespace(TrimLeft(Tail(name)))
       ELSE <<Head(name)>> \o CollapseWhitespace(Tail(name))
\* whitespace replaced by the separator
Normalized(name) == ReplaceAllChar(CollapseWhitespace(name), Space, Underscore)
Equivalent(a, b) == Normalized(a) = Normalized(b)
\* the first 14 digits of the clock that was read
Prefix(iso) == SubSeq(SelectSeq(iso, IsDigit), 1, 14)
DropPrefix(str, n) == SubSeq(str, n + 1, Len(str))

C17_AuthoringRoundTrip ==
  created # NotCreated =>
    /\ EndsWith(created.fileName, SqlExt)
    /\ VersionOf(created.fileName) =
         Prefix(created.iso) \o Underscore \o Normalized(created.name)
    /\ Equivalent(DropPrefix(NameOf(created.fileName), 15), created.name)

(***************************************************************************)
(* C18  Idempotent ledger creation.  createMigrationsTable creates the     *)
(* table when it is absent; when the table exists, its existence raises    *)
(* no error (the call can succeed) and every ledger entry stays as it was. *)
(***************************************************************************)
EnsuresTable(r) == run[r].pc = "createTable" /\ run'[r].pc # "createTable"
\* createMigrationsTable returns normally and the ledger is as before
EnsuredUnchanged(r) ==
  /\ CreateMigrationsTable(r)
  /\ run'[r].pc = "getExecuted"
  /\ tableExists' /\ ledger' = ledger

C18_IdempotentLedgerCreation ==
  /\ [](\A r \in Runs :
          run[r].pc = "createTable" => ENABLED EnsuredUnchanged(r))
  /\ [][ \A r \in Runs :
           EnsuresTable(r) =>
             /\ ledger' = ledger
             /\ tableExists => tableExists'
             /\ run'[r].pc = "getExecuted" => tableExists'
       ]_vars

\* the table existed and held an entry when a run ensured it
C18_Witness ==
  \E r \in Runs :
    /\ run[r].pc = "getExecuted"
    /\ Len(run[r].ledger0) > 0 /\ ledger = run[r].ledger0
    /\ \E k \in Positions(r, "createTable") : Trace(r)[k][3]

(***************************************************************************)
(* C19  Record after success only.  A script's ledger entry is written     *)
(* only after every one of its statements was executed successfully; when  *)
(* statement j fails, statements 1..j-1 were executed, nothing is sent     *)
(* after the failure to undo them or to run the later ones, the script     *)
(* has no ledger entry, and the next run finds it pending again.           *)
(* (One invocation at a time.)                                             *)
(***************************************************************************)
Largest(S) == CHOOSE x \in S : \A y \in S : y <= x
\* str without its leading and trailing whitespace
Trimmed(str) ==
  LET solid == {i \in 1..Len(str) : str[i] \notin WhiteSpace}
  IN IF solid = {} THEN <<>> ELSE SubSeq(str, Min(solid), Largest(solid))
\* the fragments of content between two neighbouring ";" (or an end of the
\* content), trimmed, the empty ones left out, in their order of appearance
ExpectedStatements(content) ==
  LET n == Len(content)
      cuts == {0, n + 1} \cup {i \in 1..n : <<content[i]>> = Semicolon}
      NextCut(c) == Min({d \in cuts : d > c})
      FragmentAt(c) == Trimmed(SubSeq(content, c + 1, NextCut(c) - 1))
      kept == {c \in cuts \ {n + 1} : FragmentAt(c) # <<>>}
  IN [k \in 1..Cardinality(kept) |->
        FragmentAt(CHOOSE c \in kept : Cardinality({d \in kept : d <= c}) = k)]

\* the positions in r's trace at which a script was loaded
Loads(r) == {p \in Positions(r, "readFile") : Trace(r)[p][3]}
IsStep(e) == e[1] \in {"statement", "insert"}
IsStatement(e) == e[1] = "statement"
\* the calls made for the script loaded at p: the statements and the INSERT
\* that follow the load
CallsFor(r, p) ==
  LET end == CHOOSE q \in p..Len(Trace(r)) :
               /\ \A m \in (p + 1)..q : IsStep(Trace(r)[m])
               /\ q = Len(Trace(r)) \/ ~IsStep(Trace(r)[q + 1])
  IN SubSeq(Trace(r), p + 1, end)
\* nothing but close() follows the calls made for the script loaded at p
EndsRun(r, p) ==
  LET rest == SubSeq(Trace(r), p + Len(CallsFor(r, p)) + 1, Len(Trace(r)))
  IN rest = <<>> \/ (Len(rest) = 1 /\ rest[1][1] = "close")

C19_RecordAfterSuccessOnly ==
  \A r \in Runs : \A p \in Loads(r) :
    LET calls == CallsFor(r, p)
        sent == SelectSeq(calls, IsStatement)
        want == ExpectedStatements(Trace(r)[p][4])
        v == Trace(r)[p][2]
    IN \A m \in 1..Len(calls) :
         /\ calls[m][1] = "insert" =>
              /\ m = Len(calls)
              /\ Len(sent) = Len(want)
              /\ \A n \in 1..Len(sent) : sent[n][3]
         /\ (calls[m][1] = "statement" /\ ~calls[m][3]) =>
              /\ m = Len(calls) /\ m <= Len(want)
              /\ \A n \in 1..(m - 1) :
                   calls[n] = StatementEvent(v, TRUE, want[n])
              /\ EndsRun(r, p)
              /\ Latest(r) => ~InLedger(v)
              /\ \A q \in Runs :
                   (run[q].id = run[r].id + 1
                      /\ \E k \in 1..Len(run[q].migrationFiles) :
                           VersionOf(run[q].migrationFiles[k]) = v) =>
                     \E k \in 1..Len(Pending(q)) : Pending(q)[k] = v

\* the second of two statements failed after the first was executed, and
\* the next run found the script pending, applied and recorded it
C19_Witness ==
  \E r, q \in Runs :
    /\ run[q].id = run[r].id + 1 /\ Completed(q)
    /\ \E p \in Loads(r) :
         /\ Len(CallsFor(r, p)) = 2
         /\ CallsFor(r, p)[1][3] /\ ~CallsFor(r, p)[2][3]
         /\ \E k \in 1..Len(Recorded(q)) : Recorded(q)[k] = Trace(r)[p][2]

(***************************************************************************)
(* C20  Statement splitting.  The statements sent for a script are the     *)
(* fragments of its content between the ";", trimmed, the empty and        *)
(* whitespace-only ones discarded, sent one at a time in their order of    *)
(* appearance, before the INSERT; a script that yields no statement        *)
(* executes nothing and is recorded.  (One invocation at a time.)          *)
(***************************************************************************)
C20_StatementSplitting ==
  \A r \in Runs : \A p \in Loads(r) :
    LET calls == CallsFor(r, p)
        sent == SelectSeq(calls, IsStatement)
        want == ExpectedStatements(Trace(r)[p][4])
        v == Trace(r)[p][2]
    IN /\ Len(sent) <= Len(want)
       /\ sent = SubSeq(calls, 1, Len(sent))
       /\ \A n \in 1..Len(sent) : sent[n][2] = v /\ sent[n][4] = want[n]
       /\ Len(calls) > Len(sent) =>
            /\ Len(sent) = Len(want)
            /\ Len(calls) = Len(sent) + 1
       /\ (want = <<>> /\ calls = <<>> /\ p = Len(Trace(r))) =>
            run[r].pc = "insert"
       /\ (want = <<>> /\ calls # <<>> /\ calls[1][3] /\ Latest(r)) =>
            InLedger(v)

\* a completed run sent both statements of one script, and recorded another
\* script whose content yields no statement
C20_Witness ==
  \E r \in Runs :
    /\ Completed(r) /\ Latest(r)
    /\ \E p \in Loads(r) :
         /\ Len(ExpectedStatements(Trace(r)[p][4])) = 2
         /\ Len(CallsFor(r, p)) = 3
    /\ \E p \in Loads(r) :
         /\ Len(Trace(r)[p][4]) > 0
         /\ ExpectedStatements(Trace(r)[p][4]) = <<>>
         /\ Len(CallsFor(r, p)) = 1
         /\ InLedger(Trace(r)[p][2])

(***************************************************************************)
(* C21  Duplicate on record.  When the INSERT for a script reaches the     *)
(* ledger and its version is already there, the ledger stays as it is,     *)
(* the run is aborted with that error, every statement of the script has   *)
(* already been executed, and the run makes no further call but close().   *)
(***************************************************************************)
\* r's step is its INSERT, and the version is in the ledger
RecordsDuplicate(r) ==
  /\ run[r].pc = "insert" /\ run'[r] # run[r]
  /\ InLedger(VersionOf(CurFile(r)))
\* the statements sent so far for the script r loaded last
SentForCurrent(r) ==
  SelectSeq(CallsFor(r, Largest(Loads(r))), IsStatement)

C21_DuplicateOnRecord ==
  [][ \A r \in Runs :
        /\ RecordsDuplicate(r) =>
             /\ ledger' = ledger
             /\ run'[r].pc = "close"
             /\ run'[r].thrown.cause = "duplicate"
             /\ run'[r].executedCount = run[r].executedCount
             /\ LET want == ExpectedStatements(Trace(r)[Largest(Loads(r))][4])
                IN SentForCurrent(r) =
                     [n \in 1..Len(want) |->
                        StatementEvent(VersionOf(CurFile(r)), TRUE, want[n])]
        /\ (run[r].error = "duplicate" /\ run'[r].trace # run[r].trace
              /\ run'[r].id = run[r].id) =>
             /\ run'[r].trace = Append(run[r].trace, Event("close", <<>>, TRUE))
             /\ run'[r].result = "failed"
    ]_vars

\* the record of 1 failed as a duplicate after its statement was executed;
\* 2_b was pending too and was never loaded
C21_Witness ==
  \E r \in Runs :
    /\ Returned(r) /\ run[r].thrown.cause = "duplicate"
    /\ Pending(r) = <<VersionOf(File1), VersionOf(File2b)>>
    /\ Loaded(r) = <<VersionOf(File1)>>
    /\ Len(CallsFor(r, Largest(Loads(r)))) = 2
    /\ Len(ledger) = 1

(***************************************************************************)
(* C22  Vanished script.  When a listed script can no longer be read, the  *)
(* run fails at that script: no statement of it is executed, nothing is    *)
(* recorded for it, no later pending script is attempted, and the scripts  *)
(* applied earlier in the run stay recorded.  (One invocation at a time.)  *)
(***************************************************************************)
\* the positions in r's trace at which a script could not be read
FailedLoads(r) == {k \in Positions(r, "readFile") : ~Trace(r)[k][3]}

C22_VanishedScript ==
  \A r \in Runs : \A k \in FailedLoads(r) :
    LET v == Trace(r)[k][2]
        n == Len(Recorded(r))
        n0 == Len(run[r].ledger0)
        rest == SubSeq(Trace(r), k + 1, Len(Trace(r)))
    IN /\ rest = <<>> \/ rest = <<Event("close", <<>>, TRUE)>>
       /\ run[r].pc \in {"close", "done"}
       /\ run[r].thrown.cause = "readFile"
       /\ Returned(r) => run[r].result = "failed"
       /\ \A m \in 1..Len(Trace(r)) :
            IsStep(Trace(r)[m]) => Trace(r)[m][2] # v
       /\ n < Len(Pending(r)) /\ Pending(r)[n + 1] = v
       /\ Recorded(r) = SubSeq(Pending(r), 1, n)
       /\ Loaded(r) = SubSeq(Pending(r), 1, n + 1)
       /\ Latest(r) =>
            /\ ~InLedger(v)
            /\ Len(ledger) = n0 + n
            /\ SubSeq(ledger, 1, n0) = run[r].ledger0
            /\ \A j \in 1..n : ledger[n0 + j].version = Recorded(r)[j]

\* the second of three pending scripts had vanished: the first stays
\* recorded, the third was never loaded
C22_Witness ==
  \E r \in Runs :
    /\ Returned(r) /\ FailedLoads(r) # {}
    /\ Len(Pending(r)) = 3 /\ Len(Recorded(r)) = 1 /\ Len(Loaded(r)) = 2
    /\ Len(ledger) = 1 /\ ledger[1].version = Pending(r)[1]

(***************************************************************************)
(* C23  No retries.  Within one run every pending script is loaded at      *)
(* most once and every statement of it is sent at most once, in one pass   *)
(* right after the load; no call of the initialization is made twice;      *)
(* after a call failed the run makes no call but close(); and a run        *)
(* attempts a script only if it found it pending.                          *)
(***************************************************************************)
\* a call that failed, other than the listing of a missing directory
FailedCalls(r) ==
  {k \in 1..Len(Trace(r)) : ~Trace(r)[k][3] /\ Trace(r)[k][1] # "readdir"}

C23_NoRetries ==
  \A r \in Runs :
    /\ Distinct(Loaded(r))
    /\ \A p \in Loads(r) :
         LET sent == SelectSeq(CallsFor(r, p), IsStatement)
             want == ExpectedStatements(Trace(r)[p][4])
         IN /\ Len(sent) <= Len(want)
            /\ \A n \in 1..Len(sent) : sent[n][4] = want[n]
    /\ \A m \in 1..Len(Trace(r)) :
         IsStep(Trace(r)[m]) =>
           \E p \in Loads(r) :
             /\ p < m /\ m <= p + Len(CallsFor(r, p))
             /\ Trace(r)[m][2] = Trace(r)[p][2]
    /\ \A op \in {"connect", "createTable", "select", "readdir", "mkdir",
                  "close"} : Cardinality(Positions(r, op)) <= 1
    /\ \A k \in FailedCalls(r) :
         LET rest == SubSeq(Trace(r), k + 1, Len(Trace(r)))
         IN rest = <<>> \/ rest = <<Event("close", <<>>, TRUE)>>
    /\ \A k \in 1..Len(Loaded(r)) :
         \E j \in 1..Len(Pending(r)) : Pending(r)[j] = Loaded(r)[k]

\* a statement of a script failed in one run; the next run found the script
\* pending and loaded it again
C23_Witness ==
  \E r, q \in Runs :
    /\ run[q].id = run[r].id + 1
    /\ \E k \in FailedCalls(r) :
         /\ Trace(r)[k][1] = "statement"
         /\ \E p \in Loads(q) : Trace(q)[p][2] = Trace(r)[k][2]
    /\ Cardinality(Loads(r)) = 2

(***************************************************************************)
(* C24  Version identity.  The version derived for a script file is its    *)
(* file name without the trailing extension, distinct files of a listing   *)
(* yield distinct versions, and so after a completed run every listed      *)
(* file has a ledger entry of its own, also for file names that hold       *)
(* ".sql" before their end.                                                *)
(***************************************************************************)
WithoutExtension(file) == SubSeq(file, 1, Len(file) - Len(SqlExt))

C24_VersionIdentity ==
  \A r \in Runs :
    LET listed == run[r].migrationFiles
    IN /\ \A m \in 1..Len(Trace(r)) :
            Trace(r)[m][1] \in {"skip", "readFile"} =>
              \E j \in 1..Len(listed) :
                Trace(r)[m][2] = WithoutExtension(listed[j])
       /\ \A j, k \in 1..Len(listed) :
            (j # k /\ Touched(r, VersionOf(listed[j]))) =>
              VersionOf(listed[j]) # VersionOf(listed[k])
       /\ (Completed(r) /\ Latest(r)) =>
            \A j \in 1..Len(listed) : InLedger(WithoutExtension(listed[j]))

(***************************************************************************)
(* C25  Race window.  A run reads the ledger once, before it loads or      *)
(* skips any script, and decides every skip and every load by what it     *)
(* read then; the ledger never holds two entries for one version.  (The   *)
(* witness is the interleaving in which two runs both execute the          *)
(* statements of a version and the second run's record step fails.)        *)
(***************************************************************************)
C25_RaceWindow ==
  /\ Distinct([k \in 1..Len(ledger) |-> ledger[k].version])
  /\ \A r \in Runs :
       LET read == run[r].executedMigrations
       IN /\ Cardinality(Positions(r, "select")) <= 1
          /\ \A p \in Positions(r, "readFile") \cup Positions(r, "skip") :
               \E k \in Positions(r, "select") : k < p /\ Trace(r)[k][3]
          /\ \A p \in Positions(r, "skip") :
               \E k \in 1..Len(read) : read[k] = Trace(r)[p][2]
          /\ \A p \in Positions(r, "readFile") :
               \A k \in 1..Len(read) : read[k] # Trace(r)[p][2]
          /\ IsPrefix(read, [k \in 1..Len(ledger) |-> ledger[k].version])

\* both runs read the ledger before either recorded version 1, both
\* executed its statement, q recorded it and r's record step failed
C25_Witness ==
  \E r, q \in Runs :
    /\ r # q
    /\ run[r].executedMigrations = <<>> /\ run[q].executedMigrations = <<>>
    /\ run[r].thrown.cause = "duplicate"
    /\ \A x \in {r, q} :
         \E p \in Loads(x) :
           /\ Trace(x)[p][2] = VersionOf(File1)
           /\ Len(CallsFor(x, p)) = 2
           /\ CallsFor(x, p)[1] = StatementEvent(VersionOf(File1), TRUE, <<65>>)
           /\ CallsFor(x, p)[2][1] = "insert"
           /\ CallsFor(x, p)[2][3] <=> x = q
    /\ Cardinality({k \in 1..Len(ledger) : ledger[k].version = VersionOf(File1)}) = 1

(***************************************************************************)
(* C26  Startup connection state.  startApp opens the shared connection,   *)
(* then migrate() runs, connects and in its cleanup closes that same       *)
(* connection, and nothing reopens it before the server listens: when      *)
(* the server starts to listen, the last call on the shared connection     *)
(* was close().                                                            *)
(***************************************************************************)
\* the server listens and no request has called migrate() yet
JustListening == server = "listening" /\ started = 1

C26_StartupConnectionState ==
  /\ server = "connected" => connected /\ started = 0
  /\ server = "migrating" =>
       \E r \in Runs : run[r].caller = "startup" /\ run[r].id = 1
  /\ JustListening =>
       /\ ~connected
       /\ \E r \in Runs :
            /\ run[r].caller = "startup" /\ Completed(r)
            /\ Trace(r)[1] = Event("connect", <<>>, TRUE)
            /\ Trace(r)[Len(Trace(r))] = Event("close", <<>>, TRUE)
            /\ Positions(r, "connect") = {1}
            /\ Positions(r, "close") = {Len(Trace(r))}

\* the server listens after a startup run that applied both scripts, and
\* the shared connection is closed
C26_Witness ==
  /\ JustListening /\ ~connected
  /\ Len(ledger) = 2
  /\ \A r \in Runs : run[r].caller \in {"none", "startup"}

(***************************************************************************)
(* C27  Termination.  Provided every file and database call returns or     *)
(* throws, every run of migrate() ends, completed or failed; it attempts   *)
(* at most one script per discovered file, and within a run the phases     *)
(* (initializing, diffing, applying file i, ended) never go back.          *)
(***************************************************************************)
Phase(pc) ==
  IF pc = "idle" THEN 0
  ELSE IF pc \in {"connect", "createTable"} THEN 1
  ELSE IF pc \in {"getExecuted", "readdir", "mkdir"} THEN 2
  ELSE IF pc \in {"loop", "readFile", "exec", "insert"} THEN 3
  ELSE IF pc = "close" THEN 4
  ELSE 5
Running(r) == run[r].pc \notin {"idle", "done"}
Ended(r) == run[r].pc = "done" /\ run[r].result \in {"completed", "failed"}
Attempts(r) == Cardinality(Positions(r, "readFile"))

C27_Termination ==
  /\ \A r \in Runs : Running(r) ~> Ended(r)
  /\ [](\A r \in Runs :
          /\ Attempts(r) <= Len(run[r].migrationFiles)
          /\ Attempts(r) + Cardinality(Positions(r, "skip"))
               <= Len(run[r].migrationFiles))
  /\ [][ \A r \in Runs :
           run'[r].id = run[r].id =>
             /\ Phase(run'[r].pc) >= Phase(run[r].pc)
             /\ run'[r].i >= run[r].i
             /\ (run'[r].i = run[r].i /\ Phase(run[r].pc) = 3) =>
                  Attempts(r)' <= Attempts(r) + 1
       ]_vars

\* a run over two discovered files ended after two attempts, while the
\* other run was under way
C27_Witness ==
  \E r, q \in Runs :
    /\ Ended(r) /\ Len(run[r].migrationFiles) = 2 /\ Attempts(r) = 2
    /\ Running(q) /\ run[q].id < run[r].id

====
